---- MODULE Spec2Model ----
(***************************************************************************)
(* Risk management of the maker contract                                   *)
(* (contracts/maker/src/risk_management.rs).                               *)
(*                                                                         *)
(* The four functions of the file are pure.  The model is a caller that    *)
(* invokes one of them per quoting cycle on inputs drawn from bounded      *)
(* sets; the state holds the function called, its arguments, the locals    *)
(* of the running call (safe_variance's loop is taken one iteration per    *)
(* step), and the outcome: the value returned, or the halt of a failed     *)
(* assert.  The next cycle starts from the initial state again.            *)
(*                                                                         *)
(* Decimal is cosmwasm_std::Decimal256: an unsigned fixed-point number     *)
(* held as an integer count of atoms, 10^-DecimalPlaces each (18 places in *)
(* the library, fewer here so that the model checker's integers hold the   *)
(* products).  Multiplication and division round down.  The inputs stay    *)
(* far below the 256-bit range, so the library's overflow panic is not     *)
(* modelled.                                                               *)
(***************************************************************************)
EXTENDS Integers, Sequences, FiniteSets, TLC

VARIABLES pc, fn, args, frame, ret, halted

vars == <<pc, fn, args, frame, ret, halted>>

(***************************************************************************)
(* Decimal256                                                              *)
(***************************************************************************)

\* Number of decimal places of the fixed-point representation.
DecimalPlaces == 2

RECURSIVE Pow10(_)
Pow10(n) == IF n = 0 THEN 1 ELSE 10 * Pow10(n - 1)

\* Atoms per unit: Decimal256::DECIMAL_FRACTIONAL.
DECIMAL_FRACTIONAL == Pow10(DecimalPlaces)

\* Decimal::zero(), Decimal::one(), Decimal::from_str("<n>") for a whole n.
DecZero == 0
DecOne == DECIMAL_FRACTIONAL
FromStr(n) == n * DECIMAL_FRACTIONAL

\* Decimal::from_str of the fraction num/den, for a den that divides 10^DecimalPlaces.
FromFrac(num, den) == (num * DECIMAL_FRACTIONAL) \div den

\* a * b on Decimal256: floor(a * b / DECIMAL_FRACTIONAL), the product taken
\* in full width.  Written on the quotient and remainder of the larger factor
\* so that no intermediate value leaves the model checker's integer range.
DecMul(a, b) ==
    LET hi == IF a >= b THEN a ELSE b
        lo == IF a >= b THEN b ELSE a
    IN  (hi \div DECIMAL_FRACTIONAL) * lo
            + ((hi % DECIMAL_FRACTIONAL) * lo) \div DECIMAL_FRACTIONAL

\* a + b on Decimal256.
DecAdd(a, b) == a + b

\* Long division: the first n decimal digits of r / d, for 0 <= r < d.
RECURSIVE FracDigits(_, _, _)
FracDigits(r, d, n) ==
    IF n = 0 THEN 0
    ELSE ((r * 10) \div d) * Pow10(n - 1) + FracDigits((r * 10) % d, d, n - 1)

\* utils::div_dec: num / denom, rounded down to an atom; fails on denom = 0
\* (no caller passes one).
div_dec(num, denom) ==
    (num \div denom) * DECIMAL_FRACTIONAL + FracDigits(num % denom, denom, DecimalPlaces)

\* utils::sub_abs: |lhs - rhs|.
sub_abs(lhs, rhs) == IF lhs > rhs THEN lhs - rhs ELSE rhs - lhs

\* utils::sub_no_overflow: max(0, lhs - rhs).
sub_no_overflow(lhs, rhs) == IF lhs > rhs THEN lhs - rhs ELSE DecZero

(***************************************************************************)
(* The functions                                                           *)
(***************************************************************************)

\* Option<WrappedPosition>: only its presence is read.
Positions == {"None", "Some"}

\* sanity_check with the second assertion an implication, like the third.
sanity_check_second_assert_implies(is_deriv, position, inv_base_bal, state) ==
    /\ is_deriv = state.is_deriv
    /\ (~is_deriv \/ inv_base_bal = DecZero)
    /\ (~is_deriv \/ position = "None")

\* sanity_check: TRUE when the three assertions pass and the call returns,
\* FALSE when one of them fails and the call halts.
sanity_check(is_deriv, position, inv_base_bal, state) ==
    /\ is_deriv = state.is_deriv
    /\ (is_deriv /\ inv_base_bal = DecZero)
    /\ (~is_deriv \/ position = "None")

\* get_alloc_bal_new_orders without the test for a zero margin.
get_alloc_bal_new_orders_no_zero_margin_branch(inv_val, margin, active_capital_perct) ==
    LET alloc_one_side == div_dec(DecMul(inv_val, active_capital_perct), FromStr(2))
        inv_val_1 == sub_no_overflow(inv_val, alloc_one_side)
        inv_val_2 == sub_no_overflow(inv_val_1, margin)
    IN  div_dec(DecMul(inv_val_2, active_capital_perct), FromStr(2))

\* get_alloc_bal_new_orders adding the margin to the inventory left.
get_alloc_bal_new_orders_adds_margin(inv_val, margin, active_capital_perct) ==
    LET alloc_one_side == div_dec(DecMul(inv_val, active_capital_perct), FromStr(2))
    IN  IF margin = DecZero
        THEN alloc_one_side
        ELSE LET inv_val_1 == sub_no_overflow(inv_val, alloc_one_side)
                 inv_val_2 == DecAdd(inv_val_1, margin)
             IN  div_dec(DecMul(inv_val_2, active_capital_perct), FromStr(2))

\* get_alloc_bal_new_orders subtracting the margin alone.
get_alloc_bal_new_orders_margin_only(inv_val, margin, active_capital_perct) ==
    LET alloc_one_side == div_dec(DecMul(inv_val, active_capital_perct), FromStr(2))
    IN  IF margin = DecZero
        THEN alloc_one_side
        ELSE LET inv_val_2 == sub_no_overflow(inv_val, margin)
             IN  div_dec(DecMul(inv_val_2, active_capital_perct), FromStr(2))

\* get_alloc_bal_new_orders subtracting the margin without the clamp at zero.
get_alloc_bal_new_orders_unclamped_margin(inv_val, margin, active_capital_perct) ==
    LET alloc_one_side == div_dec(DecMul(inv_val, active_capital_perct), FromStr(2))
    IN  IF margin = DecZero
        THEN alloc_one_side
        ELSE LET inv_val_1 == sub_no_overflow(inv_val, alloc_one_side)
                 inv_val_2 == inv_val_1 - margin
             IN  div_dec(DecMul(inv_val_2, active_capital_perct), FromStr(2))

get_alloc_bal_new_orders(inv_val, margin, active_capital_perct) ==
    LET alloc_for_both_sides == DecMul(inv_val, active_capital_perct)
        alloc_one_side == div_dec(alloc_for_both_sides, FromStr(2))
    IN  IF margin = DecZero
        THEN alloc_one_side
        ELSE LET inv_val_1 == sub_no_overflow(inv_val, alloc_one_side)
                 inv_val_2 == sub_no_overflow(inv_val_1, margin)
                 alloc_for_both_sides_2 == DecMul(inv_val_2, active_capital_perct)
             IN  div_dec(alloc_for_both_sides_2, FromStr(2))

\* buy_tail placing the new tail above the head, as the sell side does.
buy_tail_adds_min(buy_head, proposed_buy_tail, min_tail_dist_perct) ==
    IF buy_head > proposed_buy_tail
    THEN IF div_dec(sub_abs(buy_head, proposed_buy_tail), buy_head) < min_tail_dist_perct
         THEN DecMul(buy_head, DecAdd(DecOne, min_tail_dist_perct))
         ELSE proposed_buy_tail
    ELSE proposed_buy_tail

\* The buy side of check_tail_dist.
buy_tail(buy_head, proposed_buy_tail, min_tail_dist_perct) ==
    IF buy_head > proposed_buy_tail
    THEN LET proposed_buy_tail_dist_perct ==
                 div_dec(sub_abs(buy_head, proposed_buy_tail), buy_head)
         IN  IF proposed_buy_tail_dist_perct < min_tail_dist_perct
             THEN DecMul(buy_head, sub_abs(DecOne, min_tail_dist_perct))
             ELSE proposed_buy_tail
    ELSE proposed_buy_tail

\* sell_tail placing the new tail below the head, as the buy side does.
sell_tail_subtracts_min(sell_head, proposed_sell_tail, min_tail_dist_perct) ==
    IF sell_head < proposed_sell_tail
    THEN IF div_dec(sub_abs(sell_head, proposed_sell_tail), sell_head) < min_tail_dist_perct
         THEN DecMul(sell_head, sub_abs(DecOne, min_tail_dist_perct))
         ELSE proposed_sell_tail
    ELSE proposed_sell_tail

\* The sell side of check_tail_dist.
sell_tail(sell_head, proposed_sell_tail, min_tail_dist_perct) ==
    IF sell_head < proposed_sell_tail
    THEN LET proposed_sell_tail_dist_perct ==
                 div_dec(sub_abs(sell_head, proposed_sell_tail), sell_head)
         IN  IF proposed_sell_tail_dist_perct < min_tail_dist_perct
             THEN DecMul(sell_head, DecAdd(DecOne, min_tail_dist_perct))
             ELSE proposed_sell_tail
    ELSE proposed_sell_tail

\* check_tail_dist measuring the buy tail from the sell head.
check_tail_dist_buy_from_sell_head(buy_head, sell_head, proposed_buy_tail, proposed_sell_tail, min_tail_dist_perct) ==
    << buy_tail(sell_head, proposed_buy_tail, min_tail_dist_perct),
       sell_tail(sell_head, proposed_sell_tail, min_tail_dist_perct) >>

\* check_tail_dist returning the two tails in the other order.
check_tail_dist_swapped(buy_head, sell_head, proposed_buy_tail, proposed_sell_tail, min_tail_dist_perct) ==
    << sell_tail(sell_head, proposed_sell_tail, min_tail_dist_perct),
       buy_tail(buy_head, proposed_buy_tail, min_tail_dist_perct) >>

check_tail_dist(buy_head, sell_head, proposed_buy_tail, proposed_sell_tail, min_tail_dist_perct) ==
    << buy_tail(buy_head, proposed_buy_tail, min_tail_dist_perct),
       sell_tail(sell_head, proposed_sell_tail, min_tail_dist_perct) >>

\* The loop condition with <= for <.
sv_loop_cond_or_equal(std_dev) == DecMul(std_dev, std_dev) <= std_dev

\* The loop body without the update of shift.
sv_loop_body_keeps_shift(f) ==
    [std_dev |-> DecMul(f.std_dev, FromStr(10)), shift |-> f.shift]

\* The returned value with the square of the scale divided out.
sv_result_unscales_square(f) ==
    div_dec(div_dec(DecMul(f.std_dev, f.std_dev), f.shift), f.shift)

\* safe_variance: the loop condition, the loop body and the value returned.
sv_loop_cond(std_dev) == DecMul(std_dev, std_dev) < std_dev

sv_loop_body(f) ==
    [std_dev |-> DecMul(f.std_dev, FromStr(10)), shift |-> DecMul(f.shift, FromStr(10))]

sv_result(f) == div_dec(DecMul(f.std_dev, f.std_dev), f.shift)

(***************************************************************************)
(* Inputs                                                                  *)
(***************************************************************************)

\* The largest whole number of units among the generic inputs.
MaxUnits == 3

\* inv_base_bal of sanity_check.
InvBaseBals == {DecZero, 1, DecOne}

\* inv_val and margin of get_alloc_bal_new_orders: the smallest values, the
\* whole units up to MaxUnits, and the values of get_alloc_bal_new_orders_test.
InvVals == {0, 1, 2, 3} \cup {FromStr(n) : n \in 1..MaxUnits}
               \cup {FromStr(20) + 1, FromStr(100000)}
Margins == {0, 1, 2} \cup {FromStr(n) : n \in 1..MaxUnits}
               \cup {FromStr(5000), FromStr(100000)}

\* active_capital_perct and min_tail_dist_perct: fractions in [0, 1].
Percts == {DecZero, 1, FromFrac(1, 100), FromFrac(1, 10), FromFrac(2, 10),
           FromFrac(1, 2), DecOne}

\* Heads and proposed tails of check_tail_dist: positive heads, down to a
\* few atoms; tails at, next to and away from them; and the values of
\* check_tail_dist_test.
Heads == {7, DecOne, FromStr(100), FromStr(3999), FromStr(4001)}
Tails == {0, 1, 2, 5, 7, 9, DecOne - 1, DecOne, DecOne + 1,
          FromStr(99), FromStr(100) - 1, FromStr(100), FromStr(100) + 1, FromStr(101),
          FromStr(2000), FromStr(3998), FromStr(4002), FromStr(7000)}

\* std_dev of safe_variance: zero, the smallest values, values below, at and
\* above one, and the values of safe_variance_test.
StdDevs == {0, 1, 2, FromFrac(1, 10), FromFrac(4, 10), FromFrac(1, 2), DecOne - 1,
            DecOne, DecOne + 1, FromFrac(3, 2), FromStr(46)}
               \cup {FromStr(n) : n \in 1..MaxUnits}

(***************************************************************************)
(* The caller                                                              *)
(***************************************************************************)

NoArgs == [none |-> TRUE]
NoFrame == [none |-> TRUE]
NoRet == << >>

Init ==
    /\ pc = "idle"
    /\ fn = "none"
    /\ args = NoArgs
    /\ frame = NoFrame
    /\ ret = NoRet
    /\ halted = FALSE

SanityCheck ==
    /\ pc = "idle"
    /\ \E is_deriv \in BOOLEAN, position \in Positions,
          inv_base_bal \in InvBaseBals, state_is_deriv \in BOOLEAN :
          /\ args' = [is_deriv |-> is_deriv, position |-> position,
                      inv_base_bal |-> inv_base_bal,
                      state |-> [is_deriv |-> state_is_deriv]]
          /\ halted' = ~sanity_check(is_deriv, position, inv_base_bal,
                                     [is_deriv |-> state_is_deriv])
    /\ fn' = "sanity_check"
    /\ ret' = NoRet
    /\ pc' = "done"
    /\ UNCHANGED frame

GetAllocBalNewOrders ==
    /\ pc = "idle"
    /\ \E inv_val \in InvVals, margin \in Margins, active_capital_perct \in Percts :
          /\ args' = [inv_val |-> inv_val, margin |-> margin,
                      active_capital_perct |-> active_capital_perct]
          /\ ret' = <<get_alloc_bal_new_orders(inv_val, margin, active_capital_perct)>>
    /\ fn' = "get_alloc_bal_new_orders"
    /\ halted' = FALSE
    /\ pc' = "done"
    /\ UNCHANGED frame

CheckTailDist ==
    /\ pc = "idle"
    /\ \E buy_head \in Heads, sell_head \in Heads,
          proposed_buy_tail \in Tails, proposed_sell_tail \in Tails,
          min_tail_dist_perct \in Percts :
          /\ args' = [buy_head |-> buy_head, sell_head |-> sell_head,
                      proposed_buy_tail |-> proposed_buy_tail,
                      proposed_sell_tail |-> proposed_sell_tail,
                      min_tail_dist_perct |-> min_tail_dist_perct]
          /\ ret' = check_tail_dist(buy_head, sell_head, proposed_buy_tail,
                                    proposed_sell_tail, min_tail_dist_perct)
    /\ fn' = "check_tail_dist"
    /\ halted' = FALSE
    /\ pc' = "done"
    /\ UNCHANGED frame

\* safe_variance is entered: shift = 1.
SafeVarianceEnter ==
    /\ pc = "idle"
    /\ \E std_dev \in StdDevs :
          /\ args' = [std_dev |-> std_dev]
          /\ frame' = [std_dev |-> std_dev, shift |-> DecOne]
    /\ pc' = "sv_loop"
    /\ fn' = "safe_variance"
    /\ ret' = NoRet
    /\ halted' = FALSE

\* One iteration of the while loop.
SafeVarianceLoop ==
    /\ pc = "sv_loop"
    /\ sv_loop_cond(frame.std_dev)
    /\ frame' = sv_loop_body(frame)
    /\ UNCHANGED <<pc, fn, args, ret, halted>>

\* The loop exits and the function returns.
SafeVarianceReturn ==
    /\ pc = "sv_loop"
    /\ ~sv_loop_cond(frame.std_dev)
    /\ ret' = <<sv_result(frame)>>
    /\ frame' = NoFrame
    /\ pc' = "done"
    /\ UNCHANGED <<fn, args, halted>>

\* The call is over; the next cycle calls afresh.
NextCycle ==
    /\ pc = "done"
    /\ pc' = "idle"
    /\ fn' = "none"
    /\ args' = NoArgs
    /\ ret' = NoRet
    /\ halted' = FALSE
    /\ UNCHANGED frame

Next ==
    \/ SanityCheck
    \/ GetAllocBalNewOrders
    \/ CheckTailDist
    \/ SafeVarianceEnter
    \/ SafeVarianceLoop
    \/ SafeVarianceReturn
    \/ NextCycle

Spec == Init /\ [][Next]_vars

\* The running call is not starved: a call that can take a step takes it.
FairSpec == Spec /\ WF_vars(SafeVarianceLoop) /\ WF_vars(SafeVarianceReturn)

(***************************************************************************)
(* Properties                                                              *)
(***************************************************************************)

\* The call of function f has ended (by a return, or by a halt).
Ended(f) == pc = "done" /\ fn = f

Max(a, b) == IF a >= b THEN a ELSE b

\* The relative distance |head - tail| / head, as a Decimal.
RelDist(head, tail) == div_dec(sub_abs(head, tail), head)

\* C1: sanity_check returns normally, without halting, in each of the two
\* allowed modes when the caller's is_deriv equals state.is_deriv:
\* (i) is_deriv and a zero inventory base balance, (ii) not is_deriv and no
\* position.
C1_AllowedModesReturn ==
    (/\ Ended("sanity_check")
     /\ args.is_deriv = args.state.is_deriv
     /\ \/ args.is_deriv /\ args.inv_base_bal = DecZero
        \/ ~args.is_deriv /\ args.position = "None")
    => ~halted

\* C2: sanity_check halts whenever the caller's is_deriv differs from
\* state.is_deriv, or is_deriv holds with a nonzero inventory base balance, or
\* is_deriv does not hold and a position is present.
C2_DisallowedInputsHalt ==
    (/\ Ended("sanity_check")
     /\ \/ args.is_deriv # args.state.is_deriv
        \/ args.is_deriv /\ args.inv_base_bal # DecZero
        \/ ~args.is_deriv /\ args.position = "Some")
    => halted

\* A spot-mode call (flags agree) with a position present has halted.
C2_Witness ==
    /\ Ended("sanity_check")
    /\ ~args.is_deriv /\ ~args.state.is_deriv
    /\ args.position = "Some"
    /\ halted

\* C3: with a zero margin get_alloc_bal_new_orders(V, 0, f) is (V * f) / 2;
\* V = 100000 gives 10000 = 0.1 * V for f = 0.2 and 5000 for f = 0.1.
C3_ZeroMarginIdentity ==
    (Ended("get_alloc_bal_new_orders") /\ args.margin = DecZero)
    => /\ ret = <<DecMul(args.inv_val, args.active_capital_perct) \div 2>>
       /\ (args.inv_val = FromStr(100000) /\ args.active_capital_perct = FromFrac(2, 10))
          => /\ ret = <<FromStr(10000)>>
             /\ ret = <<DecMul(FromFrac(1, 10), args.inv_val)>>
       /\ (args.inv_val = FromStr(100000) /\ args.active_capital_perct = FromFrac(1, 10))
          => ret = <<FromStr(5000)>>

\* The first call of get_alloc_bal_new_orders_test has returned 10000.
C3_Witness ==
    /\ Ended("get_alloc_bal_new_orders")
    /\ args = [inv_val |-> FromStr(100000), margin |-> DecZero,
               active_capital_perct |-> FromFrac(2, 10)]
    /\ ret = <<FromStr(10000)>>

\* C4 as stated: for a margin > 0 the allocation is at most the zero-margin
\* allocation of the same V and f, and strictly less whenever f > 0.
C4_StrictlyLessWheneverFractionPositive ==
    (Ended("get_alloc_bal_new_orders") /\ args.margin > DecZero)
    => LET alloc_0 == get_alloc_bal_new_orders(args.inv_val, DecZero,
                                               args.active_capital_perct)
       IN  /\ ret[1] <= alloc_0
           /\ args.active_capital_perct > DecZero => ret[1] < alloc_0

\* C4, amended: for a margin > 0 the allocation is at most the zero-margin
\* allocation of the same V and f (it can equal it with f > 0: for V = 0, or
\* when rounding down absorbs the reduction); it is strictly less on the
\* inputs of the test, V = 100000, margin = 5000, f = 0.1.
C4_MarginNeverIncreasesAllocation ==
    (Ended("get_alloc_bal_new_orders") /\ args.margin > DecZero)
    => LET alloc_0 == get_alloc_bal_new_orders(args.inv_val, DecZero,
                                               args.active_capital_perct)
       IN  /\ ret[1] <= alloc_0
           /\ (/\ args.inv_val = FromStr(100000)
               /\ args.margin = FromStr(5000)
               /\ args.active_capital_perct = FromFrac(1, 10))
              => ret[1] < alloc_0

\* A call with a margin > 0 and f > 0 on a positive inventory has returned
\* less than the zero-margin allocation, which is positive.
C4_Witness ==
    /\ Ended("get_alloc_bal_new_orders")
    /\ args.margin > DecZero
    /\ args.active_capital_perct > DecZero
    /\ args.inv_val = FromStr(MaxUnits)
    /\ ret[1] > DecZero
    /\ ret[1] < get_alloc_bal_new_orders(args.inv_val, DecZero, args.active_capital_perct)

\* C5: with a margin > 0 get_alloc_bal_new_orders(V, margin, f) is
\* (residual * f) / 2, where half = (V * f) / 2 and
\* residual = max(0, max(0, V - half) - margin); V = 100000, margin = 5000,
\* f = 0.1 gives 4500.
C5_MarginAllocation ==
    (Ended("get_alloc_bal_new_orders") /\ args.margin > DecZero)
    => LET half == DecMul(args.inv_val, args.active_capital_perct) \div 2
           residual == Max(0, Max(0, args.inv_val - half) - args.margin)
       IN  /\ ret = <<DecMul(residual, args.active_capital_perct) \div 2>>
           /\ (/\ args.inv_val = FromStr(100000)
               /\ args.margin = FromStr(5000)
               /\ args.active_capital_perct = FromFrac(1, 10))
              => ret = <<FromStr(4500)>>

\* The last call of get_alloc_bal_new_orders_test has returned 4500.
C5_Witness ==
    /\ Ended("get_alloc_bal_new_orders")
    /\ args = [inv_val |-> FromStr(100000), margin |-> FromStr(5000),
               active_capital_perct |-> FromFrac(1, 10)]
    /\ ret = <<FromStr(4500)>>

\* C6: check_tail_dist returns a proposed tail unchanged when its relative
\* distance |head - tail| / head is at least min_tail_dist_perct, and on each
\* side the returned tail is no closer to the head than the proposed one: the
\* returned buy tail is <= a proposed buy tail below the buy head, the
\* returned sell tail is >= a proposed sell tail above the sell head.
C6_TightensOnly ==
    Ended("check_tail_dist")
    => /\ RelDist(args.buy_head, args.proposed_buy_tail) >= args.min_tail_dist_perct
          => ret[1] = args.proposed_buy_tail
       /\ RelDist(args.sell_head, args.proposed_sell_tail) >= args.min_tail_dist_perct
          => ret[2] = args.proposed_sell_tail
       /\ args.proposed_buy_tail < args.buy_head => ret[1] <= args.proposed_buy_tail
       /\ args.proposed_sell_tail > args.sell_head => ret[2] >= args.proposed_sell_tail

\* The first call of check_tail_dist_test has returned both tails unchanged.
C6_Witness ==
    /\ Ended("check_tail_dist")
    /\ args = [buy_head |-> FromStr(3999), sell_head |-> FromStr(4001),
               proposed_buy_tail |-> FromStr(2000), proposed_sell_tail |-> FromStr(7000),
               min_tail_dist_perct |-> FromFrac(1, 100)]
    /\ ret = <<FromStr(2000), FromStr(7000)>>

\* C7 as stated: whenever a side's proposed relative distance
\* |head - proposed tail| / head is below min_tail_dist_perct, the returned
\* tail of that side is buy_head * (1 - min), resp. sell_head * (1 + min).
C7_FloorWheneverDistanceBelowMin ==
    Ended("check_tail_dist")
    => /\ RelDist(args.buy_head, args.proposed_buy_tail) < args.min_tail_dist_perct
          => ret[1] = DecMul(args.buy_head, DecOne - args.min_tail_dist_perct)
       /\ RelDist(args.sell_head, args.proposed_sell_tail) < args.min_tail_dist_perct
          => ret[2] = DecMul(args.sell_head, DecOne + args.min_tail_dist_perct)

\* C7, amended: whenever a side's proposed tail is on its side of the head
\* (buy tail below the buy head, sell tail above the sell head) and its
\* relative distance is below min_tail_dist_perct, the returned tail of that
\* side is buy_head * (1 - min), resp. sell_head * (1 + min), as Decimal
\* products (rounded down).
C7_FloorEnforcement ==
    Ended("check_tail_dist")
    => /\ (/\ args.proposed_buy_tail < args.buy_head
           /\ RelDist(args.buy_head, args.proposed_buy_tail) < args.min_tail_dist_perct)
          => ret[1] = DecMul(args.buy_head, DecOne - args.min_tail_dist_perct)
       /\ (/\ args.proposed_sell_tail > args.sell_head
           /\ RelDist(args.sell_head, args.proposed_sell_tail) < args.min_tail_dist_perct)
          => ret[2] = DecMul(args.sell_head, DecOne + args.min_tail_dist_perct)

\* The second call of check_tail_dist_test has moved both tails to the
\* minimum distance.
C7_Witness ==
    /\ Ended("check_tail_dist")
    /\ args = [buy_head |-> FromStr(3999), sell_head |-> FromStr(4001),
               proposed_buy_tail |-> FromStr(3998), proposed_sell_tail |-> FromStr(4002),
               min_tail_dist_perct |-> FromFrac(1, 100)]
    /\ ret = <<DecMul(FromStr(3999), FromFrac(99, 100)),
               DecMul(FromStr(4001), FromFrac(101, 100))>>
    /\ ret[1] < FromStr(3998) /\ ret[2] > FromStr(4002)

\* C8: safe_variance(std_dev) >= std_dev for every std_dev >= 0, std_dev
\* being the value passed in by the caller.
C8_VarianceNotBelowStdDev ==
    Ended("safe_variance") => ret[1] >= args.std_dev

\* A call on one half, whose square is smaller, has returned 2.5.
C8_Witness ==
    /\ Ended("safe_variance")
    /\ args.std_dev = FromFrac(1, 2)
    /\ DecMul(args.std_dev, args.std_dev) < args.std_dev
    /\ ret = <<FromFrac(5, 2)>>

\* C9: safe_variance terminates on every std_dev >= 0: an iteration of the
\* loop runs only on a std_dev > 0 and strictly increases it, the loop exits
\* once std_dev >= 1, every call that entered the loop returns, and for
\* std_dev = 0 the body never runs and the result is 0.
C9_SafeVarianceTerminates ==
    /\ [][(pc = "sv_loop" /\ pc' = "sv_loop")
          => (frame.std_dev > DecZero /\ frame'.std_dev > frame.std_dev)]_vars
    /\ [][(pc = "sv_loop" /\ frame.std_dev >= DecOne) => pc' = "done"]_vars
    /\ [][(pc = "sv_loop" /\ args.std_dev = DecZero)
          => (pc' = "done" /\ frame.shift = DecOne /\ ret' = <<DecZero>>)]_vars
    /\ (pc = "sv_loop") ~> Ended("safe_variance")

\* A call on the smallest positive std_dev, one atom, has returned (one atom).
C9_Witness ==
    /\ Ended("safe_variance")
    /\ args.std_dev = 1
    /\ ret = <<1>>

\* The number of iterations of safe_variance's loop on s: the smallest k >= 0
\* with (s * 10^k)^2 >= s * 10^k.
SmallestK(s) ==
    CHOOSE k \in 0..DecimalPlaces :
        /\ DecMul(s * Pow10(k), s * Pow10(k)) >= s * Pow10(k)
        /\ \A j \in 0..(k - 1) : DecMul(s * Pow10(j), s * Pow10(j)) < s * Pow10(j)

\* C10: safe_variance(std_dev) = (std_dev * 10^k)^2 / 10^k, k being the
\* number of loop iterations, the smallest k >= 0 with
\* (std_dev * 10^k)^2 >= std_dev * 10^k; for std_dev >= 1 the result is
\* std_dev^2 (safe_variance(2) = 4), and safe_variance(0.4) = 1.6.
C10_ScaledSquare ==
    [][(pc = "sv_loop" /\ pc' = "done")
       => LET s == args.std_dev
              k == SmallestK(s)
              scaled == s * Pow10(k)
          IN  /\ frame.shift = FromStr(Pow10(k))
              /\ frame.std_dev = scaled
              /\ ret' = <<DecMul(scaled, scaled) \div Pow10(k)>>
              /\ s >= DecOne => (k = 0 /\ ret' = <<DecMul(s, s)>>)
              /\ s = FromStr(2) => ret' = <<FromStr(4)>>
              /\ s = FromFrac(4, 10) => ret' = <<FromFrac(16, 10)>>]_vars

\* The second call of safe_variance_test has returned 1.6.
C10_Witness ==
    /\ Ended("safe_variance")
    /\ args.std_dev = FromFrac(4, 10)
    /\ ret = <<FromFrac(16, 10)>>

\* C11: with a margin > 0 get_alloc_bal_new_orders returns a value >= 0 and
\* does not halt; whenever margin >= V - (V * f) / 2, the inventory left
\* after the half-allocation, the result is exactly 0.
C11_SaturatesAtZero ==
    (Ended("get_alloc_bal_new_orders") /\ args.margin > DecZero)
    => LET half == DecMul(args.inv_val, args.active_capital_perct) \div 2
       IN  /\ ~halted
           /\ ret[1] >= DecZero
           /\ args.margin >= args.inv_val - half => ret = <<DecZero>>

\* A call on a positive inventory and fraction, with a margin above the
\* inventory left after the half-allocation, has returned 0.
C11_Witness ==
    /\ Ended("get_alloc_bal_new_orders")
    /\ args.inv_val = FromStr(MaxUnits)
    /\ args.active_capital_perct = FromFrac(1, 2)
    /\ args.margin > args.inv_val
    /\ ~halted
    /\ ret = <<DecZero>>

\* C12: a proposed buy tail >= the buy head is returned unchanged, and a
\* proposed sell tail <= the sell head is returned unchanged, for every
\* min_tail_dist_perct; the tail returned for a side does not depend on the
\* head and the proposed tail of the other side: whatever these are, it is
\* the tail returned when the other side has the values of the first call of
\* check_tail_dist_test.
C12_InvertedPassThrough ==
    Ended("check_tail_dist")
    => /\ args.proposed_buy_tail >= args.buy_head => ret[1] = args.proposed_buy_tail
       /\ args.proposed_sell_tail <= args.sell_head => ret[2] = args.proposed_sell_tail
       /\ ret[1] = check_tail_dist(args.buy_head, FromStr(4001),
                                   args.proposed_buy_tail, FromStr(7000),
                                   args.min_tail_dist_perct)[1]
       /\ ret[2] = check_tail_dist(FromStr(3999), args.sell_head,
                                   FromStr(2000), args.proposed_sell_tail,
                                   args.min_tail_dist_perct)[2]

\* A call with both ladders inverted, each tail closer to its head than the
\* minimum, has returned both proposed tails.
C12_Witness ==
    /\ Ended("check_tail_dist")
    /\ args = [buy_head |-> FromStr(100), sell_head |-> FromStr(100),
               proposed_buy_tail |-> FromStr(101), proposed_sell_tail |-> FromStr(99),
               min_tail_dist_perct |-> FromFrac(1, 2)]
    /\ RelDist(args.buy_head, args.proposed_buy_tail) < args.min_tail_dist_perct
    /\ RelDist(args.sell_head, args.proposed_sell_tail) < args.min_tail_dist_perct
    /\ ret = <<FromStr(101), FromStr(99)>>

\* C13: check_tail_dist is idempotent: the returned (buy_tail, sell_tail),
\* fed back as the proposed tails with the same heads and minimum, is
\* returned again.
C13_Idempotent ==
    Ended("check_tail_dist")
    => check_tail_dist(args.buy_head, args.sell_head, ret[1], ret[2],
                       args.min_tail_dist_perct) = ret

\* A call has moved a sell tail to sell_head * (1 + min) rounded down, which
\* is again closer to the head than the minimum, and a buy tail to
\* buy_head * (1 - min): fed back, the second call replaces the sell tail by
\* the same value.
C13_Witness ==
    /\ Ended("check_tail_dist")
    /\ args.sell_head = 7 /\ args.proposed_sell_tail = 9
    /\ args.buy_head = FromStr(100) /\ args.proposed_buy_tail = FromStr(99)
    /\ args.min_tail_dist_perct = FromFrac(1, 2)
    /\ ret = <<FromStr(50), 10>>
    /\ RelDist(args.sell_head, ret[2]) < args.min_tail_dist_perct
    /\ check_tail_dist(args.buy_head, args.sell_head, ret[1], ret[2],
                       args.min_tail_dist_perct) = ret

====
